---- MODULE Spec2Model ----
(***************************************************************************)
(* Model of MBA-course/run_agent.py (run) and MBA-course/report_export.py  *)
(* (_TeeWriter, start_log, stop_log, save_all).                            *)
(*                                                                         *)
(* Spec     : calls of run() against an opaque resumable workflow engine,  *)
(*            an operator typing replies, and a file system.               *)
(* TeeSpec  : a client calling start_log / stop_log / print in any order.  *)
(***************************************************************************)
EXTENDS Integers, Sequences, FiniteSets, TLC

(***************************************************************************)
(* Bounds of the model.                                                    *)
(***************************************************************************)
\* _TeeWriter objects a TeeSpec client may create
MaxWriters == 3
\* agent.get_state calls one run() may make
MaxQueries == 3
\* characters in one line typed by the operator
MaxLineLen == 3
\* seconds on the clock
MaxClock == 2

(***************************************************************************)
(* report_export.py: the log tee.                                          *)
(* A stream is the console that was sys.stdout before any start_log, or a  *)
(* _TeeWriter object (by its index in writers), or Python's None.          *)
(***************************************************************************)
VARIABLES
    sys_stdout,     \* sys.stdout: a stream
    _tee,           \* report_export._tee: None or a _TeeWriter
    _orig_stdout,   \* report_export._orig_stdout: None or a stream
    writers,        \* the _TeeWriter objects created so far: [_log, _orig]
    lastWrite,      \* where the most recent write to sys.stdout arrived
    lastCall        \* the most recent call into the tee: start_log, stop_log, print

None == [kind |-> "None"]
Console == [kind |-> "console"]
Tee(k) == [kind |-> "tee", id |-> k]

NoWrite == [console |-> FALSE, logs |-> {}, raised |-> FALSE]

\* _TeeWriter.__init__ with open() succeeding: the log file is open
NewTeeWriter(dir, orig_stdout) ==
    [_log |-> [dir |-> dir, closed |-> FALSE], _orig |-> orig_stdout]

\* stream.write(s): the console takes it; a _TeeWriter writes _orig first and
\* then _log, and a write to a closed file raises ValueError.
RECURSIVE StreamWrite(_, _)
StreamWrite(ws, stream) ==
    IF stream.kind = "console"
    THEN [console |-> TRUE, logs |-> {}, raised |-> FALSE]
    ELSE LET w == ws[stream.id]
             r == StreamWrite(ws, w._orig)
         IN  IF r.raised THEN r
             ELSE IF w._log.closed THEN [r EXCEPT !.raised = TRUE]
             ELSE [r EXCEPT !.logs = @ \cup {stream.id}]

\* The module-level state of report_export together with sys.stdout.
TeeModule ==
    [sys_stdout |-> sys_stdout, _tee |-> _tee,
     _orig_stdout |-> _orig_stdout, writers |-> writers]

\* start_log(output_dir); openOk is whether open(log_path, "w") succeeds.
\* _orig_stdout is assigned before the _TeeWriter is constructed.
start_log(m, dir, openOk) ==
    LET m1 == [m EXCEPT !._orig_stdout = m.sys_stdout]
    IN  IF ~openOk THEN m1
        ELSE LET k == Len(m.writers) + 1
             IN  [m1 EXCEPT !.writers = Append(@, NewTeeWriter(dir, m1._orig_stdout)),
                            !._tee = Tee(k),
                            !.sys_stdout = Tee(k)]

\* stop_log() that closes the file but leaves sys.stdout on the tee
stop_log_keeps_tee(m) ==
    IF m._tee # None
    THEN [m EXCEPT !.writers[m._tee.id]._log.closed = TRUE,
                   !._tee = None,
                   !._orig_stdout = None]
    ELSE m

\* stop_log() without the `if _tee is not None` guard
stop_log_unguarded(m) ==
    [m EXCEPT !.sys_stdout = m._orig_stdout,
              !._tee = None,
              !._orig_stdout = None]

\* stop_log()
stop_log(m) ==
    IF m._tee # None
    THEN [m EXCEPT !.sys_stdout = m._orig_stdout,
                   !.writers[m._tee.id]._log.closed = TRUE,
                   !._tee = None,
                   !._orig_stdout = None]
    ELSE m

\* print(...): one write to whatever sys.stdout is now
print(m) == StreamWrite(m.writers, m.sys_stdout)

SetTeeModule(m) ==
    /\ sys_stdout' = m.sys_stdout
    /\ _tee' = m._tee
    /\ _orig_stdout' = m._orig_stdout
    /\ writers' = m.writers

teeVars == <<sys_stdout, _tee, _orig_stdout, writers, lastWrite, lastCall>>

\* a step that prints one line through sys.stdout
Prints ==
    /\ lastWrite' = print(TeeModule)
    /\ lastCall' = "print"
    /\ UNCHANGED <<sys_stdout, _tee, _orig_stdout, writers>>

(***************************************************************************)
(* The resumable workflow engine (mba.build_graph(...)), seen through      *)
(* invoke / get_state only.  Its state is what get_state would return: the *)
(* pending-transitions indicator `next` and the tasks, each with or        *)
(* without an `interrupts` attribute.  An interrupt is identified by the   *)
(* invocation that raised it and its place: <<invocation, task, index>>.   *)
(***************************************************************************)
NoAttr == [attr |-> FALSE, n |-> 0]
T(k) == [attr |-> TRUE, n |-> k]


RECURSIVE SeqsUpTo(_, _)
SeqsUpTo(S, len) ==
    IF len = 0 THEN {<<>>}
    ELSE LET shorter == SeqsUpTo(S, len - 1)
         IN  shorter \cup {Append(q, x) : q \in {r \in shorter : Len(r) = len - 1}, x \in S}

\* the task lists the engine is taken through: none, tasks with no interrupt,
\* one or two interrupts in one task, interrupts in two tasks, and a task
\* without the attribute before one with it
PendingShapes ==
    {<<>>, <<T(0)>>, <<T(1)>>, <<T(2)>>, <<T(1), T(1)>>, <<NoAttr, T(1)>>}
TerminalShapes == {<<>>, <<T(1)>>}

Fresh(shape, g) ==
    [t \in 1..Len(shape) |->
        [has_interrupts |-> shape[t].attr,
         interrupts |-> [i \in 1..shape[t].n |-> <<g, t, i>>]]]

Unstarted == [next |-> FALSE, tasks |-> <<>>]

\* the interrupts of a state, task by task
RECURSIVE Interrupts(_)
Interrupts(tasks) ==
    IF tasks = <<>> THEN <<>>
    ELSE (IF Head(tasks).has_interrupts THEN Head(tasks).interrupts ELSE <<>>)
         \o Interrupts(Tail(tasks))

\* the interrupts the engine is suspended on
Pending(e) ==
    IF e.next THEN {Interrupts(e.tasks)[k] : k \in 1..Len(Interrupts(e.tasks))} ELSE {}

\* the engine with its first pending interrupt resolved and the others kept
RECURSIVE DropFirst(_)
DropFirst(tasks) ==
    IF tasks = <<>> THEN <<>>
    ELSE IF Head(tasks).has_interrupts /\ Head(tasks).interrupts # <<>>
    THEN <<[Head(tasks) EXCEPT !.interrupts = Tail(@)]>> \o Tail(tasks)
    ELSE <<Head(tasks)>> \o DropFirst(Tail(tasks))

\* The states the engine may be in when invocation g returns: the engine is
\* opaque, so any state, or the present one less the interrupt it resolved.
EngineAfter(e, g) ==
    {[next |-> TRUE, tasks |-> Fresh(s, g)] : s \in PendingShapes}
    \cup {[next |-> FALSE, tasks |-> Fresh(s, g)] : s \in TerminalShapes}
    \cup (IF Pending(e) # {} THEN {[e EXCEPT !.tasks = DropFirst(@)]} ELSE {})

(***************************************************************************)
(* The operator's line and input(...).strip()                              *)
(***************************************************************************)
Whitespace == {" ", "\t"}
Chars == Whitespace \cup {"y"}
Lines == SeqsUpTo(Chars, MaxLineLen)

RECURSIVE lstrip(_)
lstrip(s) == IF s # <<>> /\ Head(s) \in Whitespace THEN lstrip(Tail(s)) ELSE s

RECURSIVE rstrip(_)
rstrip(s) ==
    IF s # <<>> /\ s[Len(s)] \in Whitespace THEN rstrip(SubSeq(s, 1, Len(s) - 1)) ELSE s

strip(s) == rstrip(lstrip(s))

approved == <<"a", "p", "p", "r", "o", "v", "e", "d">>

\* the same without .strip()
Feedback_unstripped(typed) == IF typed = <<>> THEN approved ELSE typed

\* feedback = input(...).strip(); if not feedback: feedback = "approved"
Feedback(typed) == IF strip(typed) = <<>> THEN approved ELSE strip(typed)

(***************************************************************************)
(* run_agent.py: run(mba, config_dict)                                     *)
(***************************************************************************)
VARIABLES
    pc,          \* the statement run() is at
    exc,         \* the exception in flight, or "none"
    outcome,     \* how run() was left: "none", "returned", "raised"
    agent,       \* the engine's state
    snapshot,    \* run()'s local snapshot
    ti, ii,      \* position of the two for loops in snapshot.tasks / task.interrupts
    gate_num,
    line,        \* what input() returned
    feedback,
    result,      \* the response held in `result`: the number of the invocation that returned it
    shown,       \* the interrupt whose payload the last prompt displayed
    iterLog,     \* prompts and resumes since the last get_state
    hist,        \* calls issued so far by this run
    output_dir,  \* 0 before it is bound, then the timestamp
    clock,       \* the current second
    dirs, files, \* the working directory: artifact directories and the files in them
    drive,       \* the directories under DRIVE_OUTPUT_DIR
    docx,        \* how the DOCX step of save_all ended
    config_dict, \* the CONFIG mapping handed to run()
    composed,    \* the result handed to save_all, 0 before the call
    retval,      \* the value of `return result`, 0 before it
    result_dict, \* the contents of the mapping that result is bound to
    mount,       \* what Path("/content/drive/MyDrive").exists() answered
    md_text,     \* the text handed to _md_lines_to_docx
    doc          \* the elements added to the document

loopVars == <<snapshot, ti, ii, gate_num, line, feedback, shown, iterLog>>
fsVars == <<clock, dirs, files, drive>>
runVars == <<pc, exc, outcome, agent, result, hist, output_dir, docx>>

extraVars == <<config_dict, composed, retval, result_dict, mount, md_text, doc>>

vars == <<teeVars, runVars, loopVars, fsVars, extraVars>>

\* config_ui.get_config(): the query, the role -> model mapping and the limits
CONFIG ==
    [input_query |-> "Q",
     agents |-> [intake |-> [model |-> "m1"], synthesizer |-> [model |-> "m2"]],
     max_clarify_rounds |-> 5]

\* the mapping the engine returns from its k-th call; save_all reads these two keys
Response(k) ==
    [recommendation |-> k, action_plan |-> k]

NoSnapshot == None
NoInterrupt == <<0, 0, 0>>
NoHist ==
    [invoke |-> 0, resume |-> 0, get_state |-> 0, display |-> 0,
     save_all |-> 0, copytree |-> 0, stop_log |-> 0]

\* open(path, "w") ... : the file is created or truncated, then written
WriteFile(fs, dir, name, state) ==
    {f \in fs : ~(f.dir = dir /\ f.name = name)}
    \cup {[dir |-> dir, name |-> name, by |-> "run", state |-> state]}

\* what an earlier run in this working directory may have left behind
PriorArtifacts(dir) ==
    {[dir |-> dir, name |-> nm, by |-> "earlier", state |-> "complete"] :
        nm \in {"log.txt", "report.md", "meta.yaml"}}

\* an exception raised inside the try block goes to the finally clause
RaiseInTry(e) ==
    /\ exc' = e
    /\ pc' = "finally"

\* an exception raised before the try block leaves run() at once
RaiseBeforeTry(e) ==
    /\ exc' = e
    /\ pc' = "done"
    /\ outcome' = "raised"

Init ==
    /\ sys_stdout = Console
    /\ _tee = None
    /\ _orig_stdout = None
    /\ writers = <<>>
    /\ lastWrite = NoWrite
    /\ lastCall = "none"
    /\ pc = "build_graph"
    /\ exc = "none"
    /\ outcome = "none"
    /\ agent = Unstarted
    /\ snapshot = NoSnapshot
    /\ ti = 0
    /\ ii = 0
    /\ gate_num = 0
    /\ line = <<>>
    /\ feedback = <<>>
    /\ result = 0
    /\ shown = NoInterrupt
    /\ iterLog = <<>>
    /\ hist = NoHist
    /\ output_dir = 0
    /\ clock = 1
    /\ \E earlier \in BOOLEAN :
          /\ dirs = IF earlier THEN {1} ELSE {}
          /\ files = IF earlier THEN PriorArtifacts(1) ELSE {}
          /\ drive = IF earlier THEN {1} ELSE {}
    /\ docx = "none"
    /\ config_dict = CONFIG
    /\ composed = 0
    /\ retval = 0
    /\ result_dict = Response(0)
    /\ mount = "unknown"
    /\ md_text = <<>>
    /\ doc = <<>>

\* line 65: agent = mba.build_graph(checkpointer=MemorySaver())
BuildGraph ==
    /\ pc = "build_graph"
    /\ \/ /\ pc' = "mkdir"
          /\ UNCHANGED <<exc, outcome>>
       \/ RaiseBeforeTry("BuildError")
    /\ UNCHANGED <<agent, result, hist, output_dir, docx, teeVars, loopVars, fsVars>>
    /\ UNCHANGED extraVars

\* lines 69-72: ts = datetime.now()...; output_dir.mkdir(parents=True, exist_ok=True); print
Mkdir ==
    /\ pc = "mkdir"
    /\ \E now \in clock..MaxClock :
          /\ clock' = now
          /\ output_dir' = now
          /\ \/ /\ dirs' = dirs \cup {now}
                /\ Prints
                /\ pc' = "start_log"
                /\ UNCHANGED <<exc, outcome>>
             \/ /\ RaiseBeforeTry("OSError")
                /\ UNCHANGED <<dirs, teeVars>>
    /\ UNCHANGED <<agent, result, hist, docx, loopVars, files, drive>>
    /\ UNCHANGED extraVars

\* line 75: report_export.start_log(output_dir)
StartLog ==
    /\ pc = "start_log"
    /\ \/ /\ SetTeeModule(start_log(TeeModule, output_dir, TRUE))
          /\ files' = WriteFile(files, output_dir, "log.txt", "open")
          /\ pc' = "invoke"
          /\ UNCHANGED <<exc, outcome>>
       \/ /\ SetTeeModule(start_log(TeeModule, output_dir, FALSE))
          /\ RaiseBeforeTry("OSError")
          /\ UNCHANGED files
    /\ lastCall' = "start_log"
    /\ UNCHANGED <<agent, result, hist, output_dir, docx, lastWrite, loopVars, clock, dirs, drive>>
    /\ UNCHANGED extraVars

\* lines 79-82: result = agent.invoke({"user_query": ...}, lc_config); gate_num = 0
Invoke ==
    /\ pc = "invoke"
    /\ hist' = [hist EXCEPT !.invoke = @ + 1]
    /\ \/ /\ agent' \in EngineAfter(agent, 1)
          /\ result' = 1
          /\ gate_num' = 0
          /\ pc' = "get_state"
          /\ UNCHANGED exc
       \/ /\ RaiseInTry("EngineError")
          /\ UNCHANGED <<agent, result, gate_num>>
    /\ UNCHANGED <<outcome, output_dir, docx, teeVars, fsVars,
                   snapshot, ti, ii, line, feedback, shown, iterLog>>
    /\ result_dict' = Response(result')
    /\ UNCHANGED <<config_dict, composed, retval, mount, md_text, doc>>

\* the loop without `if not snapshot.next: break`
GetState_ignores_next ==
    /\ pc = "get_state"
    /\ hist.get_state < MaxQueries
    /\ snapshot' = agent
    /\ iterLog' = <<>>
    /\ ti' = 1
    /\ ii' = 0
    /\ pc' = "for_task"
    /\ hist' = [hist EXCEPT !.get_state = @ + 1]
    /\ UNCHANGED <<exc, outcome, agent, result, output_dir, docx, teeVars, fsVars,
                   gate_num, line, feedback, shown>>
    /\ UNCHANGED extraVars

\* a state query that restarts the banner counter in every loop iteration
GetState_resets_gate_num ==
    /\ pc = "get_state"
    /\ hist.get_state < MaxQueries
    /\ \/ /\ snapshot' = agent
          /\ iterLog' = <<>>
          /\ ti' = 1
          /\ ii' = 0
          /\ IF ~agent.next
             THEN /\ pc' = "save_markdown"
                  /\ hist' = [hist EXCEPT !.get_state = @ + 1, !.save_all = @ + 1]
             ELSE /\ pc' = "for_task"
                  /\ hist' = [hist EXCEPT !.get_state = @ + 1]
          /\ UNCHANGED exc
       \/ /\ hist' = [hist EXCEPT !.get_state = @ + 1]
          /\ RaiseInTry("StateError")
          /\ UNCHANGED <<snapshot, iterLog, ti, ii>>
    /\ UNCHANGED <<outcome, agent, result, output_dir, docx, teeVars, fsVars,
                   line, feedback, shown>>
    /\ gate_num' = 0
    /\ composed' = IF pc' = "save_markdown" THEN result ELSE composed
    /\ UNCHANGED <<config_dict, retval, result_dict, mount, md_text, doc>>

\* lines 83-86: snapshot = agent.get_state(lc_config); if not snapshot.next: break
\* and, after the loop, line 102 up to the call of save_all on line 105
GetState ==
    /\ pc = "get_state"
    /\ hist.get_state < MaxQueries
    /\ \/ /\ snapshot' = agent
          /\ iterLog' = <<>>
          /\ ti' = 1
          /\ ii' = 0
          /\ IF ~agent.next
             THEN /\ pc' = "save_markdown"
                  /\ hist' = [hist EXCEPT !.get_state = @ + 1, !.save_all = @ + 1]
             ELSE /\ pc' = "for_task"
                  /\ hist' = [hist EXCEPT !.get_state = @ + 1]
          /\ UNCHANGED exc
       \/ /\ hist' = [hist EXCEPT !.get_state = @ + 1]
          /\ RaiseInTry("StateError")
          /\ UNCHANGED <<snapshot, iterLog, ti, ii>>
    /\ UNCHANGED <<outcome, agent, result, output_dir, docx, teeVars, fsVars,
                   gate_num, line, feedback, shown>>
    /\ composed' = IF pc' = "save_markdown" THEN result ELSE composed
    /\ UNCHANGED <<config_dict, retval, result_dict, mount, md_text, doc>>

\* lines 88-89: for task in snapshot.tasks: if hasattr(task, "interrupts")
ForTask ==
    /\ pc = "for_task"
    /\ IF ti > Len(snapshot.tasks)
       THEN /\ pc' = "get_state"
            /\ UNCHANGED <<ti, ii>>
       ELSE IF snapshot.tasks[ti].has_interrupts
       THEN /\ pc' = "for_intr"
            /\ ii' = 1
            /\ UNCHANGED ti
       ELSE /\ ti' = ti + 1
            /\ UNCHANGED <<pc, ii>>
    /\ UNCHANGED <<exc, outcome, agent, result, hist, output_dir, docx, teeVars, fsVars,
                   snapshot, gate_num, line, feedback, shown, iterLog>>
    /\ UNCHANGED extraVars

\* lines 90-95: for intr in task.interrupts: gate_num += 1; display the banner and payload
ForIntr ==
    /\ pc = "for_intr"
    /\ IF ii > Len(snapshot.tasks[ti].interrupts)
       THEN /\ pc' = "for_task"
            /\ ti' = ti + 1
            /\ UNCHANGED <<gate_num, hist, shown, iterLog>>
       ELSE /\ gate_num' = gate_num + 1
            /\ hist' = [hist EXCEPT !.display = @ + 1]
            /\ shown' = snapshot.tasks[ti].interrupts[ii]
            /\ iterLog' = Append(iterLog, [op |-> "prompt", intr |-> snapshot.tasks[ti].interrupts[ii]])
            /\ pc' = "input"
            /\ UNCHANGED ti
    /\ UNCHANGED <<exc, outcome, agent, result, output_dir, docx, teeVars, fsVars,
                   snapshot, ii, line, feedback>>
    /\ UNCHANGED extraVars

\* lines 97-99: feedback = input(...).strip(); if not feedback: feedback = "approved"
Input ==
    /\ pc = "input"
    /\ \/ \E typed \in Lines :
             /\ line' = typed
             /\ feedback' = Feedback(typed)
             /\ pc' = "resume"
             /\ UNCHANGED exc
       \/ /\ RaiseInTry("KeyboardInterrupt")
          /\ UNCHANGED <<line, feedback>>
    /\ UNCHANGED <<outcome, agent, result, hist, output_dir, docx, teeVars, fsVars,
                   snapshot, ti, ii, gate_num, shown, iterLog>>
    /\ UNCHANGED extraVars

\* a resume followed at once by a new state query, leaving the for loops
Resume_requery ==
    /\ pc = "resume"
    /\ hist' = [hist EXCEPT !.resume = @ + 1]
    /\ iterLog' = Append(iterLog, [op |-> "resume", intr |-> shown])
    /\ line' = <<>>
    /\ feedback' = <<>>
    /\ \/ /\ agent' \in EngineAfter(agent, hist.resume + 2)
          /\ result' = hist.resume + 2
          /\ pc' = "get_state"
          /\ UNCHANGED <<exc, ii>>
       \/ /\ RaiseInTry("EngineError")
          /\ UNCHANGED <<agent, result, ii>>
    /\ UNCHANGED <<outcome, output_dir, docx, teeVars, fsVars,
                   snapshot, ti, gate_num, shown>>
    /\ result_dict' = Response(result')
    /\ UNCHANGED <<config_dict, composed, retval, mount, md_text, doc>>

\* a resume that is issued again when the engine raises
Resume_retry ==
    /\ pc = "resume"
    /\ hist' = [hist EXCEPT !.resume = @ + 1]
    /\ iterLog' = Append(iterLog, [op |-> "resume", intr |-> shown])
    /\ \/ /\ agent' \in EngineAfter(agent, hist.resume + 2)
          /\ result' = hist.resume + 2
          /\ ii' = ii + 1
          /\ pc' = "for_intr"
          /\ line' = <<>>
          /\ feedback' = <<>>
          /\ UNCHANGED exc
       \/ /\ hist.resume < MaxQueries
          /\ exc' = "EngineError"
          /\ UNCHANGED <<pc, agent, result, ii, line, feedback>>
    /\ UNCHANGED <<outcome, output_dir, docx, teeVars, fsVars,
                   snapshot, ti, gate_num, shown>>
    /\ result_dict' = Response(result')
    /\ UNCHANGED <<config_dict, composed, retval, mount, md_text, doc>>

\* a resume whose response is not bound to result
Resume_drops_response ==
    /\ pc = "resume"
    /\ hist' = [hist EXCEPT !.resume = @ + 1]
    /\ iterLog' = Append(iterLog, [op |-> "resume", intr |-> shown])
    /\ line' = <<>>
    /\ feedback' = <<>>
    /\ \/ /\ agent' \in EngineAfter(agent, hist.resume + 2)
          /\ UNCHANGED result
          /\ ii' = ii + 1
          /\ pc' = "for_intr"
          /\ UNCHANGED exc
       \/ /\ RaiseInTry("EngineError")
          /\ UNCHANGED <<agent, result, ii>>
    /\ UNCHANGED <<outcome, output_dir, docx, teeVars, fsVars,
                   snapshot, ti, gate_num, shown>>
    /\ result_dict' = Response(result')
    /\ UNCHANGED <<config_dict, composed, retval, mount, md_text, doc>>

\* line 100: result = agent.invoke(Command(resume=feedback), lc_config)
Resume ==
    /\ pc = "resume"
    /\ hist' = [hist EXCEPT !.resume = @ + 1]
    /\ iterLog' = Append(iterLog, [op |-> "resume", intr |-> shown])
    /\ line' = <<>>
    /\ feedback' = <<>>
    /\ \/ /\ agent' \in EngineAfter(agent, hist.resume + 2)
          /\ result' = hist.resume + 2
          /\ ii' = ii + 1
          /\ pc' = "for_intr"
          /\ UNCHANGED exc
       \/ /\ RaiseInTry("EngineError")
          /\ UNCHANGED <<agent, result, ii>>
    /\ UNCHANGED <<outcome, output_dir, docx, teeVars, fsVars,
                   snapshot, ti, gate_num, shown>>
    /\ result_dict' = Response(result')
    /\ UNCHANGED <<config_dict, composed, retval, mount, md_text, doc>>


(***************************************************************************)
(* report_export.py: save_all(result, config, output_dir, elapsed)         *)
(***************************************************************************)
\* lines 87-101: the markdown file is opened, written and closed, then its path printed;
\* a failure before or inside the with block leaves no file or a partial one
SaveMarkdown ==
    /\ pc = "save_markdown"
    /\ \/ /\ files' = WriteFile(files, output_dir, "report.md", "complete")
          /\ Prints
          /\ pc' = "save_meta"
          /\ UNCHANGED exc
       \/ /\ files' \in {files, WriteFile(files, output_dir, "report.md", "partial")}
          /\ RaiseInTry("SaveError")
          /\ UNCHANGED teeVars
    /\ UNCHANGED <<outcome, agent, result, hist, output_dir, docx, loopVars, clock, dirs, drive>>
    /\ UNCHANGED extraVars

\* a metadata step that stores the approval flag in the configuration it was given
SaveMeta_stamps_config ==
    /\ pc = "save_meta"
    /\ \/ /\ files' = WriteFile(files, output_dir, "meta.yaml", "complete")
          /\ Prints
          /\ pc' = "docx_import"
          /\ UNCHANGED exc
       \/ /\ files' \in {files, WriteFile(files, output_dir, "meta.yaml", "partial")}
          /\ RaiseInTry("SaveError")
          /\ UNCHANGED teeVars
    /\ UNCHANGED <<outcome, agent, result, hist, output_dir, docx, loopVars, clock, dirs, drive>>
    /\ config_dict' = [k \in DOMAIN config_dict \cup {"auto_approve"} |->
                        IF k = "auto_approve" THEN FALSE ELSE config_dict[k]]
    /\ UNCHANGED <<composed, retval, result_dict, mount, md_text, doc>>

\* lines 104-117: meta.yaml is opened, dumped and closed, then its path printed
SaveMeta ==
    /\ pc = "save_meta"
    /\ \/ /\ files' = WriteFile(files, output_dir, "meta.yaml", "complete")
          /\ Prints
          /\ pc' = "docx_import"
          /\ UNCHANGED exc
       \/ /\ files' \in {files, WriteFile(files, output_dir, "meta.yaml", "partial")}
          /\ RaiseInTry("SaveError")
          /\ UNCHANGED teeVars
    /\ UNCHANGED <<outcome, agent, result, hist, output_dir, docx, loopVars, clock, dirs, drive>>
    /\ UNCHANGED extraVars

\* lines 120-123 and 195-196: the docx imports; ImportError prints the skip notice
DocxImport ==
    /\ pc = "docx_import"
    /\ \/ /\ pc' = "docx_build"
          /\ UNCHANGED <<docx, teeVars>>
       \/ /\ docx' = "skip"
          /\ Prints
          /\ pc' = "save_tail"
    /\ UNCHANGED <<exc, outcome, agent, result, hist, output_dir, loopVars, fsVars>>
    /\ UNCHANGED extraVars

\* the document step without its `except Exception` clause
DocxBuild_uncaught ==
    /\ pc = "docx_build"
    /\ \/ /\ pc' = "docx_save"
          /\ UNCHANGED <<exc, docx, teeVars>>
       \/ /\ RaiseInTry("DocxError")
          /\ UNCHANGED <<docx, teeVars>>
    /\ UNCHANGED <<outcome, agent, result, hist, output_dir, loopVars, fsVars>>
    /\ UNCHANGED extraVars

\* lines 125-190 and 197-198: the document is built; any Exception prints the warning
DocxBuild ==
    /\ pc = "docx_build"
    /\ \/ /\ pc' = "docx_save"
          /\ UNCHANGED <<docx, teeVars>>
       \/ /\ docx' = "warning"
          /\ Prints
          /\ pc' = "save_tail"
    /\ UNCHANGED <<exc, outcome, agent, result, hist, output_dir, loopVars, fsVars>>
    /\ UNCHANGED extraVars

\* lines 192-194 and 197-198: doc.save(docx_path); print, or the warning
DocxSave ==
    /\ pc = "docx_save"
    /\ \/ /\ files' = WriteFile(files, output_dir, "report.docx", "complete")
          /\ docx' = "saved"
       \/ /\ files' \in {files, WriteFile(files, output_dir, "report.docx", "partial")}
          /\ docx' = "warning"
    /\ Prints
    /\ pc' = "save_tail"
    /\ UNCHANGED <<exc, outcome, agent, result, hist, output_dir, loopVars, clock, dirs, drive>>
    /\ UNCHANGED extraVars

\* lines 200-201: the two closing prints; save_all returns
SaveTail ==
    /\ pc = "save_tail"
    /\ Prints
    /\ pc' = "drive"
    /\ UNCHANGED <<exc, outcome, agent, result, hist, output_dir, docx, loopVars, fsVars>>
    /\ UNCHANGED extraVars

(***************************************************************************)
(* run_agent.py: run(), after save_all                                     *)
(***************************************************************************)

\* a mirror step that copies whether or not the mount path exists
Drive_ignores_mount ==
    /\ pc = "drive"
    /\ \/ /\ mount' = "present"
          /\ hist' = [hist EXCEPT !.copytree = @ + 1]
          /\ \/ /\ output_dir \notin drive
                /\ drive' = drive \cup {output_dir}
                /\ Prints
                /\ pc' = "complete"
                /\ UNCHANGED exc
             \/ /\ RaiseInTry(IF output_dir \in drive THEN "FileExistsError" ELSE "OSError")
                /\ UNCHANGED <<drive, teeVars>>
       \/ /\ mount' = "absent"
          /\ hist' = [hist EXCEPT !.copytree = @ + 1]
          /\ drive' = drive \cup {output_dir}
          /\ Prints
          /\ pc' = "complete"
          /\ UNCHANGED exc
    /\ UNCHANGED <<outcome, agent, result, output_dir, docx, loopVars, clock, dirs, files>>
    /\ UNCHANGED <<config_dict, composed, retval, result_dict, md_text, doc>>

\* lines 108-114: copy to Google Drive when mounted (copytree raises when the
\* destination exists), otherwise the skip notice
Drive ==
    /\ pc = "drive"
    /\ \/ /\ mount' = "present"
          /\ hist' = [hist EXCEPT !.copytree = @ + 1]
          /\ \/ /\ output_dir \notin drive
                /\ drive' = drive \cup {output_dir}
                /\ Prints
                /\ pc' = "complete"
                /\ UNCHANGED exc
             \/ /\ RaiseInTry(IF output_dir \in drive THEN "FileExistsError" ELSE "OSError")
                /\ UNCHANGED <<drive, teeVars>>
       \/ /\ mount' = "absent"
          /\ Prints
          /\ pc' = "complete"
          /\ UNCHANGED <<exc, hist, drive>>
    /\ UNCHANGED <<outcome, agent, result, output_dir, docx, loopVars, clock, dirs, files>>
    /\ UNCHANGED <<config_dict, composed, retval, result_dict, md_text, doc>>

\* lines 116-120: the closing banner, print(Elapsed); return result
Complete ==
    /\ pc = "complete"
    /\ Prints
    /\ pc' = "finally"
    /\ UNCHANGED <<exc, outcome, agent, result, hist, output_dir, docx, loopVars, fsVars>>
    /\ retval' = result
    /\ UNCHANGED <<config_dict, composed, result_dict, mount, md_text, doc>>

\* lines 122-124: finally: report_export.stop_log(); then run() returns or re-raises
Finally ==
    /\ pc = "finally"
    /\ SetTeeModule(stop_log(TeeModule))
    /\ lastCall' = "stop_log"
    /\ hist' = [hist EXCEPT !.stop_log = @ + 1]
    /\ files' = IF _tee # None
                THEN WriteFile(files, writers[_tee.id]._log.dir, "log.txt", "complete")
                ELSE files
    /\ outcome' = IF exc = "none" THEN "returned" ELSE "raised"
    /\ pc' = "done"
    /\ UNCHANGED <<exc, agent, result, output_dir, docx, lastWrite, loopVars, clock, dirs, drive>>
    /\ UNCHANGED extraVars

Next ==
    \/ BuildGraph
    \/ Mkdir
    \/ StartLog
    \/ Invoke
    \/ GetState
    \/ ForTask
    \/ ForIntr
    \/ Input
    \/ Resume
    \/ SaveMarkdown
    \/ SaveMeta
    \/ DocxImport
    \/ DocxBuild
    \/ DocxSave
    \/ SaveTail
    \/ Drive
    \/ Complete
    \/ Finally

Spec == Init /\ [][Next]_vars

(***************************************************************************)
(* Properties of run() (checked under Spec)                                *)
(***************************************************************************)
IsPrefix(a, b) == Len(a) =< Len(b) /\ SubSeq(b, 1, Len(a)) = a

\* prompt and resume alternating over the interrupts D, in order
PromptResume(D) ==
    [k \in 1..(2 * Len(D)) |->
        IF k % 2 = 1 THEN [op |-> "prompt", intr |-> D[(k + 1) \div 2]]
                     ELSE [op |-> "resume", intr |-> D[k \div 2]]]

\* the interrupts of the iteration that the last state query opened
Discovered ==
    IF snapshot # None /\ snapshot.next THEN Interrupts(snapshot.tasks) ELSE <<>>

\* C1: in every loop iteration the prompts and resume calls since the state
\* query are, at any moment, a prefix of prompt(i1), resume(i1), ..., prompt(iN),
\* resume(iN) over the snapshot's interrupts in discovery order (tasks in
\* reported order, interrupts in order within a task), and run() is back at
\* the state query only when all N prompts and all N resumes have been made.
C1_OneResumePerInterrupt ==
    /\ IsPrefix(iterLog, PromptResume(Discovered))
    /\ (pc = "get_state" /\ hist.get_state >= 1) => iterLog = PromptResume(Discovered)

C1_Witness ==
    /\ pc = "get_state"
    /\ hist.get_state >= 1
    /\ Len(snapshot.tasks) = 2
    /\ Len(iterLog) = 4
    /\ iterLog[2].intr # iterLog[4].intr

\* C2: at every resume call the interrupt whose payload the prompt displayed
\* is one the engine is suspended on at that moment.
C2_ReplyReachesDisplayedInterrupt ==
    pc = "resume" => shown \in Pending(agent)

\* C3: once a state query has returned a snapshot with an empty `next`, run()
\* shows no prompt and makes no resume call or state query; when that query is
\* the first one, the run has made zero prompts and zero resumes.
C3_TerminalSnapshotEndsLoop ==
    /\ [][(snapshot # None /\ ~snapshot.next) =>
            /\ gate_num' = gate_num
            /\ hist'.resume = hist.resume
            /\ hist'.invoke = hist.invoke
            /\ hist'.get_state = hist.get_state
            /\ pc' \notin {"get_state", "for_task", "for_intr", "input", "resume"}]_vars
    /\ []((snapshot # None /\ ~snapshot.next /\ hist.get_state = 1) =>
            (gate_num = 0 /\ hist.resume = 0))

C3_Witness ==
    /\ pc = "done"
    /\ outcome = "returned"
    /\ snapshot # None
    /\ ~snapshot.next
    /\ Interrupts(snapshot.tasks) # <<>>
    /\ hist.get_state = 1
    /\ gate_num = 0
    /\ hist.resume = 0

AllWhitespace(s) == \A k \in 1..Len(s) : s[k] \in Whitespace

\* C4: the value handed to resume is "approved" when the typed line is empty or
\* all whitespace, and otherwise the line less its leading and trailing
\* whitespace (inner whitespace kept); it is never the empty string.
C4_DefaultApprove ==
    pc = "resume" =>
        /\ feedback # <<>>
        /\ AllWhitespace(line) => feedback = approved
        /\ ~AllWhitespace(line) =>
              /\ feedback[1] \notin Whitespace
              /\ feedback[Len(feedback)] \notin Whitespace
              /\ \E lead \in 0..Len(line) :
                    /\ lead + Len(feedback) =< Len(line)
                    /\ SubSeq(line, lead + 1, lead + Len(feedback)) = feedback
                    /\ AllWhitespace(SubSeq(line, 1, lead))
                    /\ AllWhitespace(SubSeq(line, lead + Len(feedback) + 1, Len(line)))

C4_Witness ==
    /\ pc = "resume"
    /\ line = <<" ", "\t">>
    /\ feedback = approved

\* C5: however run() is left, stop_log() has been called exactly once and
\* sys.stdout is the stream it was when run() was entered.
C5_StopLogExactlyOnce ==
    pc = "done" => (hist.stop_log = 1 /\ sys_stdout = Console)

\* C6: after the initial invoke or a resume has raised, run() makes no engine
\* call, shows no prompt, calls neither save_all nor copytree, stops the tee,
\* and is left by that exception.
C6_EngineFailureAborts ==
    /\ [][exc = "EngineError" =>
            /\ exc' = exc
            /\ hist'.invoke = hist.invoke
            /\ hist'.resume = hist.resume
            /\ hist'.get_state = hist.get_state
            /\ gate_num' = gate_num]_vars
    /\ [](exc = "EngineError" =>
            /\ pc \in {"finally", "done"}
            /\ hist.save_all = 0
            /\ hist.copytree = 0)
    /\ []((exc = "EngineError" /\ pc = "done") =>
            /\ outcome = "raised"
            /\ hist.stop_log = 1
            /\ _tee = None
            /\ sys_stdout = Console)

C6_Witness ==
    /\ exc = "EngineError"
    /\ pc = "done"
    /\ hist.resume = 2
    /\ outcome = "raised"

ComposerPcs ==
    {"save_markdown", "save_meta", "docx_import", "docx_build", "docx_save", "save_tail"}

\* C7: save_all and the copy to secondary storage run only after the tee has
\* been stopped.
C7_ComposerAfterTeeStopped ==
    pc \in ComposerPcs \cup {"drive"} => (hist.stop_log = 1 /\ _tee = None)

Written(name) ==
    \E f \in files :
        f.dir = output_dir /\ f.name = name /\ f.by = "run" /\ f.state = "complete"

DocxPcs == {"docx_import", "docx_build", "docx_save"}

\* C8: throughout the document step of save_all the markdown and metadata files
\* of this run are completely written; the step never raises: it ends at the
\* closing prints of save_all, after a printed notice when it failed, with both
\* files still in place, and run() goes on to its next step.
C8_DocxFailureRecoverable ==
    /\ [](pc \in DocxPcs \cup {"save_tail"} => (Written("report.md") /\ Written("meta.yaml")))
    /\ [](docx \in {"skip", "warning"} => (Written("report.md") /\ Written("meta.yaml")))
    /\ [][(pc \in DocxPcs) => (pc' \in DocxPcs \cup {"save_tail"} /\ exc' = "none")]_vars
    /\ [][(pc \in DocxPcs /\ docx' \in {"skip", "warning"}) =>
            (pc' = "save_tail" /\ lastCall' = "print")]_vars
    /\ [][pc = "save_tail" => (pc' = "drive" /\ exc' = "none")]_vars

C8_Witness ==
    /\ docx = "warning"
    /\ pc = "done"
    /\ outcome = "returned"
    /\ Written("report.md")
    /\ Written("meta.yaml")
    /\ ~Written("report.docx")


\* C11: the value run() returns is the response of the most recent engine
\* invocation (response 1 of the initial invoke when no resume was issued,
\* response k + 1 of the k-th resume otherwise); it is bound once, only after
\* a state query whose snapshot has no pending transitions, and it is the
\* value that was handed to save_all.
C11_ReturnsLastResponse ==
    /\ [](retval # 0 =>
            /\ hist.invoke = 1
            /\ retval = hist.invoke + hist.resume
            /\ retval = result
            /\ composed = retval
            /\ snapshot # None
            /\ ~snapshot.next)
    /\ [](composed # 0 => (composed = hist.invoke + hist.resume /\ ~snapshot.next))
    /\ []((pc = "done" /\ outcome = "returned") => retval # 0)
    /\ [][retval # 0 => retval' = retval]_vars
    /\ [][composed # 0 => composed' = composed]_vars

C11_Witness ==
    /\ pc = "done"
    /\ outcome = "returned"
    /\ hist.resume = 2
    /\ retval = 3
    /\ composed = 3

\* C12: the banner counter starts at 0 and grows by exactly 1 with every prompt
\* shown, so the k-th prompt of the run carries the number k; no step lowers or
\* repeats it, a new loop iteration included; it always equals the number of
\* prompts shown so far, which is the number of resume calls issued or one more.
C12_BannerNumbering ==
    /\ [](gate_num = hist.display)
    /\ [](hist.resume =< gate_num /\ gate_num =< hist.resume + 1)
    /\ [](pc \in {"input", "resume"} => gate_num = hist.resume + 1)
    /\ [][(gate_num' = gate_num) \/ (gate_num' = gate_num + 1 /\ pc' = "input")]_vars
    /\ [][(pc' = "input" /\ pc # "input") => gate_num' = hist.display + 1]_vars

C12_Witness ==
    /\ pc = "input"
    /\ gate_num = 3
    /\ hist.get_state = 2
    /\ hist.resume = 2


\* C13: the artifact directory of a run is fresh, that is, it does not exist
\* when the run names it, also when an earlier run was started within the same
\* clock second; and no file left by an earlier run is overwritten by this run.
C13_FreshWriteOnceDirectory ==
    /\ [][(pc = "mkdir" /\ pc' = "start_log") => output_dir' \notin dirs]_vars
    /\ [][\A f \in files : f.by = "earlier" => f \in files']_vars


\* C14: from the call of save_all to the end of run() the configuration mapping
\* and the result mapping keep the keys and values they had when save_all was
\* called, also when the document step fails; result stays bound to that mapping.
C14_InputsNotMutated ==
    /\ [](hist.save_all >= 1 => (config_dict = CONFIG /\ result_dict = Response(composed)))
    /\ [][hist.save_all >= 1 =>
            (config_dict' = config_dict /\ result_dict' = result_dict /\ result' = result)]_vars

C14_Witness ==
    /\ pc = "done"
    /\ hist.save_all = 1
    /\ outcome = "returned"
    /\ docx = "warning"
    /\ mount = "present"
    /\ config_dict = CONFIG
    /\ result_dict = Response(2)


\* C17: when run() comes back to the state query after an iteration, at least
\* one resume call has been issued since the previous state query, whatever
\* the pending snapshot held (tasks without interrupts or no tasks included).
C17_ResumeBetweenQueries ==
    (pc = "get_state" /\ hist.get_state >= 1) =>
        \E k \in 1..Len(iterLog) : iterLog[k].op = "resume"


\* C19: copytree is called only in the step that follows the return of
\* save_all and only when the mount path exists, and a successful copy adds a
\* directory of the run's own name to the mount; when the path does not exist
\* nothing is copied, a notice is printed, no exception is raised and run()
\* returns the result; either way, when run() is left the tee is stopped.
C19_DriveMirror ==
    /\ [][(pc' = "drive" /\ pc # "drive") => pc = "save_tail"]_vars
    /\ [][hist'.copytree # hist.copytree =>
            (pc = "drive" /\ mount' = "present" /\ hist.save_all = 1)]_vars
    /\ [][drive' # drive => (mount' = "present" /\ drive' = drive \cup {output_dir})]_vars
    /\ [][(pc = "drive" /\ mount' = "absent") =>
            /\ drive' = drive
            /\ exc' = "none"
            /\ lastCall' = "print"
            /\ pc' = "complete"]_vars
    /\ [](mount = "absent" => (exc = "none" /\ hist.copytree = 0))
    /\ []((pc = "done" /\ mount = "absent") =>
            (outcome = "returned" /\ retval = result /\ retval # 0))
    /\ []((pc = "done" /\ mount # "unknown") =>
            (_tee = None /\ sys_stdout = Console /\ hist.stop_log = 1))

C19_Witness ==
    /\ pc = "done"
    /\ outcome = "returned"
    /\ mount = "present"
    /\ hist.copytree = 1
    /\ output_dir \in drive
    /\ retval = result
    /\ _tee = None

(***************************************************************************)
(* TeeSpec: start_log, stop_log and print called in any order by a client  *)
(* other than run().                                                       *)
(***************************************************************************)
TeeInit ==
    /\ sys_stdout = Console
    /\ _tee = None
    /\ _orig_stdout = None
    /\ writers = <<>>
    /\ lastWrite = NoWrite
    /\ lastCall = "none"
    /\ pc = "client"
    /\ exc = "none"
    /\ outcome = "none"
    /\ agent = Unstarted
    /\ snapshot = NoSnapshot
    /\ ti = 0
    /\ ii = 0
    /\ gate_num = 0
    /\ line = <<>>
    /\ feedback = <<>>
    /\ result = 0
    /\ shown = NoInterrupt
    /\ iterLog = <<>>
    /\ hist = NoHist
    /\ output_dir = 0
    /\ clock = 1
    /\ dirs = {}
    /\ files = {}
    /\ drive = {}
    /\ docx = "none"
    /\ config_dict = CONFIG
    /\ composed = 0
    /\ retval = 0
    /\ result_dict = Response(0)
    /\ mount = "unknown"
    /\ md_text = <<>>
    /\ doc = <<>>

TeeStart ==
    /\ Len(writers) < MaxWriters
    /\ \E openOk \in BOOLEAN : SetTeeModule(start_log(TeeModule, 0, openOk))
    /\ lastCall' = "start_log"
    /\ UNCHANGED <<lastWrite, runVars, loopVars, fsVars>>
    /\ UNCHANGED extraVars

TeeStop ==
    /\ SetTeeModule(stop_log(TeeModule))
    /\ lastCall' = "stop_log"
    /\ UNCHANGED <<lastWrite, runVars, loopVars, fsVars>>
    /\ UNCHANGED extraVars

TeePrint ==
    /\ Prints
    /\ UNCHANGED <<runVars, loopVars, fsVars>>
    /\ UNCHANGED extraVars

TeeNext == TeeStart \/ TeeStop \/ TeePrint

TeeSpec == TeeInit /\ [][TeeNext]_vars

C10_StopLogIdempotent ==
    /\ [][(_tee = None /\ lastCall' = "stop_log") =>
            UNCHANGED <<sys_stdout, _tee, _orig_stdout, writers>>]_vars
    /\ [](stop_log(stop_log(TeeModule)) = stop_log(TeeModule))

C10_Witness ==
    /\ lastCall = "stop_log"
    /\ _tee = None
    /\ _orig_stdout = Console
    /\ writers = <<>>


\* C18: whatever start_log() and stop_log() calls have been made, at most one
\* log file is open that no later stop_log() can close (an open log other than
\* that of the active tee), and right after a stop_log() that leaves no tee
\* active sys.stdout is the console stream in place before the first
\* start_log() and every log file opened so far is closed.
C18_StartStopSequences ==
    /\ Cardinality({k \in 1..Len(writers) :
            ~writers[k]._log.closed /\ (_tee = None \/ _tee.id # k)}) =< 1
    /\ (lastCall = "stop_log" /\ _tee = None) =>
            /\ sys_stdout = Console
            /\ \A k \in 1..Len(writers) : writers[k]._log.closed

(***************************************************************************)
(* report_export.py: _add_formatted_runs and _md_lines_to_docx             *)
(* A text is a sequence of characters; a document is the sequence of the   *)
(* paragraphs added to it, each with a style and its runs.                 *)
(***************************************************************************)
\* longest text handed to _add_formatted_runs
MaxRunLen == 6

\* longest text handed to _md_lines_to_docx
MaxTextLen == 5

RunChars == {"*", "a", "b"}

MdChars == {"#", "*", "-", " ", "a", "\n"}

\* str.startswith, str.endswith
startswith(s, p) == Len(s) >= Len(p) /\ SubSeq(s, 1, Len(p)) = p

endswith(s, p) == Len(s) >= Len(p) /\ SubSeq(s, Len(s) - Len(p) + 1, Len(s)) = p

\* s[a:-b] of Python for a, b > 0
Slice(s, a, b) == SubSeq(s, a + 1, Len(s) - b)

\* "**" at position i of t
Stars2(t, i) == i + 1 =< Len(t) /\ t[i] = "*" /\ t[i + 1] = "*"

\* \*\*.*?\*\* tried at position i: the position of the last character of the
\* match, the closing "**" being the first one at or after i + 2; 0 when none
BoldEnd(t, i) ==
    IF Stars2(t, i) /\ \E j \in (i + 2)..Len(t) : Stars2(t, j)
    THEN 1 + CHOOSE j \in (i + 2)..Len(t) :
                 Stars2(t, j) /\ \A k \in (i + 2)..(j - 1) : ~Stars2(t, k)
    ELSE 0

\* \*.*?\* tried at position i
ItalicEnd(t, i) ==
    IF t[i] = "*" /\ \E j \in (i + 1)..Len(t) : t[j] = "*"
    THEN CHOOSE j \in (i + 1)..Len(t) : t[j] = "*" /\ \A k \in (i + 1)..(j - 1) : t[k] # "*"
    ELSE 0

\* the alternation at position i: the first alternative that matches wins
MatchEnd(t, i) == IF BoldEnd(t, i) # 0 THEN BoldEnd(t, i) ELSE ItalicEnd(t, i)

\* re.split(r'(\*\*.*?\*\*|\*.*?\*)', t) from position i on, start being the
\* beginning of the unmatched part under way: unmatched parts and captured
\* matches alternate, beginning and ending with an unmatched part
RECURSIVE SplitFrom(_, _, _)
SplitFrom(t, start, i) ==
    IF i > Len(t) THEN <<SubSeq(t, start, Len(t))>>
    ELSE IF MatchEnd(t, i) # 0
    THEN <<SubSeq(t, start, i - 1), SubSeq(t, i, MatchEnd(t, i))>>
         \o SplitFrom(t, MatchEnd(t, i) + 1, MatchEnd(t, i) + 1)
    ELSE SplitFrom(t, start, i + 1)

re_split(t) == SplitFrom(t, 1, 1)

Run(text, style) == [text |-> text, style |-> style]

\* lines 57-64: the run added for one part
add_run(part) ==
    IF startswith(part, <<"*", "*">>) /\ endswith(part, <<"*", "*">>)
    THEN Run(Slice(part, 2, 2), "bold")
    ELSE IF startswith(part, <<"*">>) /\ endswith(part, <<"*">>)
    THEN Run(Slice(part, 1, 1), "italic")
    ELSE Run(part, "plain")

\* lines 51-64: the runs added to the paragraph, in order
_add_formatted_runs(text) ==
    LET parts == re_split(text)
    IN  [k \in 1..Len(parts) |-> add_run(parts[k])]

\* text.split("\n")
RECURSIVE split_lines(_, _)
split_lines(t, start) ==
    IF \E i \in start..Len(t) : t[i] = "\n"
    THEN LET i == CHOOSE i \in start..Len(t) : t[i] = "\n" /\ \A k \in start..(i - 1) : t[k] # "\n"
         IN  <<SubSeq(t, start, i - 1)>> \o split_lines(t, i + 1)
    ELSE <<SubSeq(t, start, Len(t))>>

\* doc.add_heading(text, level): a paragraph of the heading style with the text in one run
Heading(text, level) ==
    [style |-> <<"Heading", level>>, runs |-> <<Run(text, "plain")>>]

Paragraph(style, runs) ==
    [style |-> <<style, 0>>, runs |-> runs]

\* headings whose text goes through inline-run parsing
md_line_parses_headings(ln) ==
    LET stripped == strip(ln)
    IN  IF startswith(stripped, <<"#", "#", "#", " ">>)
        THEN <<[style |-> <<"Heading", 3>>, runs |-> _add_formatted_runs(Slice(stripped, 4, 0))]>>
        ELSE IF startswith(stripped, <<"#", "#", " ">>)
        THEN <<[style |-> <<"Heading", 2>>, runs |-> _add_formatted_runs(Slice(stripped, 3, 0))]>>
        ELSE IF startswith(stripped, <<"#", " ">>)
        THEN <<[style |-> <<"Heading", 1>>, runs |-> _add_formatted_runs(Slice(stripped, 2, 0))]>>
        ELSE IF startswith(stripped, <<"-", " ">>) \/ startswith(stripped, <<"*", " ">>)
        THEN <<Paragraph("List Bullet", _add_formatted_runs(Slice(stripped, 2, 0)))>>
        ELSE IF stripped # <<>>
        THEN <<Paragraph("Normal", _add_formatted_runs(stripped))>>
        ELSE <<>>

\* lines 69-82: the elements one line adds to the document
md_line(ln) ==
    LET stripped == strip(ln)
    IN  IF startswith(stripped, <<"#", "#", "#", " ">>)
        THEN <<Heading(Slice(stripped, 4, 0), 3)>>
        ELSE IF startswith(stripped, <<"#", "#", " ">>)
        THEN <<Heading(Slice(stripped, 3, 0), 2)>>
        ELSE IF startswith(stripped, <<"#", " ">>)
        THEN <<Heading(Slice(stripped, 2, 0), 1)>>
        ELSE IF startswith(stripped, <<"-", " ">>) \/ startswith(stripped, <<"*", " ">>)
        THEN <<Paragraph("List Bullet", _add_formatted_runs(Slice(stripped, 2, 0)))>>
        ELSE IF stripped # <<>>
        THEN <<Paragraph("Normal", _add_formatted_runs(stripped))>>
        ELSE <<>>

\* line 69: for line in ...: the elements of the lines, in order
RECURSIVE md_lines(_)
md_lines(lines) ==
    IF lines = <<>> THEN <<>> ELSE md_line(Head(lines)) \o md_lines(Tail(lines))

\* lines 67-82
_md_lines_to_docx(text) == md_lines(split_lines(text, 1))

renderIdle == <<teeVars, loopVars, fsVars, exc, outcome, agent, result, hist, output_dir, docx,
                config_dict, composed, retval, result_dict, mount>>

\* everything but the renderer is as it is before run() is called
RenderIdle ==
    /\ sys_stdout = Console /\ _tee = None /\ _orig_stdout = None /\ writers = <<>>
    /\ lastWrite = NoWrite /\ lastCall = "none"
    /\ exc = "none" /\ outcome = "none" /\ agent = Unstarted /\ result = 0
    /\ hist = NoHist /\ output_dir = 0 /\ docx = "none"
    /\ snapshot = NoSnapshot /\ ti = 0 /\ ii = 0 /\ gate_num = 0
    /\ line = <<>> /\ feedback = <<>> /\ shown = NoInterrupt /\ iterLog = <<>>
    /\ clock = 1 /\ dirs = {} /\ files = {} /\ drive = {}
    /\ config_dict = CONFIG /\ composed = 0 /\ retval = 0
    /\ result_dict = Response(0) /\ mount = "unknown"


(***************************************************************************)
(* RunsSpec: _add_formatted_runs applied to every text over RunChars       *)
(***************************************************************************)
RunsInit ==
    /\ RenderIdle
    /\ pc = "add_formatted_runs"
    /\ md_text \in SeqsUpTo(RunChars, MaxRunLen)
    /\ doc = <<>>

AddFormattedRuns ==
    /\ pc = "add_formatted_runs"
    /\ doc' = <<Paragraph("Normal", _add_formatted_runs(md_text))>>
    /\ pc' = "runs_added"
    /\ UNCHANGED <<md_text, renderIdle>>

RunsNext == AddFormattedRuns

RunsSpec == RunsInit /\ [][RunsNext]_vars


(***************************************************************************)
(* DocSpec: _md_lines_to_docx applied to every text over MdChars           *)
(***************************************************************************)
DocInit ==
    /\ RenderIdle
    /\ pc = "md_lines_to_docx"
    /\ md_text \in SeqsUpTo(MdChars, MaxTextLen)
    /\ doc = <<>>

MdLinesToDocx ==
    /\ pc = "md_lines_to_docx"
    /\ doc' = _md_lines_to_docx(md_text)
    /\ pc' = "rendered"
    /\ UNCHANGED <<md_text, renderIdle>>

DocNext == MdLinesToDocx

DocSpec == DocInit /\ [][DocNext]_vars

(***************************************************************************)
(* Properties of _add_formatted_runs (checked under RunsSpec)              *)
(***************************************************************************)
RECURSIVE Concat(_)
Concat(ss) == IF ss = <<>> THEN <<>> ELSE Head(ss) \o Concat(Tail(ss))

\* the text with the delimiters of its matched spans removed: "**" at both
\* ends of a span matched as bold, "*" at both ends of one matched as italic
RECURSIVE Visible(_, _)
Visible(t, i) ==
    IF i > Len(t) THEN <<>>
    ELSE IF BoldEnd(t, i) # 0
    THEN SubSeq(t, i + 2, BoldEnd(t, i) - 2) \o Visible(t, BoldEnd(t, i) + 1)
    ELSE IF ItalicEnd(t, i) # 0
    THEN SubSeq(t, i + 1, ItalicEnd(t, i) - 1) \o Visible(t, ItalicEnd(t, i) + 1)
    ELSE <<t[i]>> \o Visible(t, i + 1)

\* C15: the texts of the runs added for a text, concatenated in order, are the
\* text with only the delimiters of its matched bold and italic spans removed,
\* and every part of the text outside the matched spans, the asterisks in it
\* included, is one plain run with the part as its text.
C15_RunsLossless ==
    pc = "runs_added" =>
        LET runs == doc[1].runs
            parts == re_split(md_text)
        IN  /\ Concat([k \in 1..Len(runs) |-> runs[k].text]) = Visible(md_text, 1)
            /\ Len(runs) = Len(parts)
            /\ \A k \in 1..Len(parts) : k % 2 = 1 => runs[k] = Run(parts[k], "plain")


(***************************************************************************)
(* Properties of _md_lines_to_docx (checked under DocSpec)                 *)
(***************************************************************************)
\* the heading level of a trimmed line: the number of "#" before the first " "
\* when that is 1, 2 or 3, else 0
HeadingLevel(s) ==
    IF \E n \in 1..3 : Len(s) > n /\ s[n + 1] = " " /\ \A k \in 1..n : s[k] = "#"
    THEN CHOOSE n \in 1..3 : Len(s) > n /\ s[n + 1] = " " /\ \A k \in 1..n : s[k] = "#"
    ELSE 0

IsBullet(s) == Len(s) >= 2 /\ s[1] \in {"-", "*"} /\ s[2] = " "

\* the elements the document gets for one line
ElementsOf(ln) ==
    LET s == strip(ln)
        n == HeadingLevel(s)
    IN  IF n > 0 THEN <<[style |-> <<"Heading", n>>,
                         runs |-> <<Run(SubSeq(s, n + 2, Len(s)), "plain")>>]>>
        ELSE IF IsBullet(s) THEN <<[style |-> <<"List Bullet", 0>>,
                                    runs |-> _add_formatted_runs(SubSeq(s, 3, Len(s)))]>>
        ELSE IF s # <<>> THEN <<[style |-> <<"Normal", 0>>, runs |-> _add_formatted_runs(s)]>>
        ELSE <<>>

RECURSIVE ElementsOfLines(_)
ElementsOfLines(lines) ==
    IF lines = <<>> THEN <<>> ELSE ElementsOf(Head(lines)) \o ElementsOfLines(Tail(lines))

\* C16: the document is, line by line in order, what the precedence gives for
\* the trimmed line: "### " a level-3 heading, else "## " level 2, else "# "
\* level 1, else "- " or "* " a bullet, else a paragraph when not blank, and
\* nothing for a blank line; a line gives at most one element, a line that
\* starts with "### " only ever a level-3 heading, and a heading has its text
\* after the prefix as one plain run, asterisks included.
C16_LineClassification ==
    pc = "rendered" =>
        LET lines == split_lines(md_text, 1)
        IN  /\ doc = ElementsOfLines(lines)
            /\ \A k \in 1..Len(lines) : Len(ElementsOf(lines[k])) =< 1
            /\ Len(doc) =< Len(lines)
            /\ (Len(lines) = 1 /\ startswith(strip(md_text), <<"#", "#", "#", " ">>)) =>
                    /\ Len(doc) = 1
                    /\ doc[1].style = <<"Heading", 3>>
                    /\ doc[1].runs = <<Run(SubSeq(strip(md_text), 5, Len(strip(md_text))), "plain")>>

C16_Witness ==
    /\ pc = "rendered"
    /\ md_text = <<"#", "#", "#", " ", "*">>
    /\ doc = <<Heading(<<"*">>, 3)>>

====
